---- MODULE Spec2Model ----
(***************************************************************************)
(* Stock_Bro: the StockPredictor train / predict / feature-importance      *)
(* lifecycle (src/src/stock_bro/ai/predictor.py), specification Spec; the  *)
(* TechnicalAnalyzer and the fetcher, SpecAnalysis; the feature builder on *)
(* two series, SpecFeatures; the API handlers, SpecApi.                    *)
(*                                                                         *)
(* Floats are abstracted: an indicator value is either NaN or defined,     *)
(* a target is the exact rational (close[i+1]-close[i]) / close[i], the    *)
(* regressor's output is a return in whole percent, and an importance is   *)
(* an integer number of ImpUnit-ths.  Positions are 0-based as in the      *)
(* source; TLA+ sequences are 1-based, so X[k] is the row of position      *)
(* lookback_days + k - 1.                                                  *)
(***************************************************************************)
EXTENDS Integers, Sequences, FiniteSets, TLC

VARIABLES
    model,            \* self.model: NoModel is None
    scaler,           \* self.scaler
    feature_columns,  \* self.feature_columns
    rejectsNaN,       \* the installed scikit-learn: TRUE when its forest
                      \* raises ValueError on NaN input (before 1.4), FALSE
                      \* when it handles missing values; the repository
                      \* pins no version, and the value never changes
    calls,            \* history: train calls made so far
    lastOk,           \* history: the last train call that returned, or 0
    ret,              \* history: what the last call returned or raised
    api               \* the API process: its requests and its event loop

vars == <<model, scaler, feature_columns, rejectsNaN, calls, lastOk, ret, api>>

(***************************************************************************)
(* Bounds of the model.                                                    *)
(***************************************************************************)
MaxBars == 100
MaxTrains == 3

(***************************************************************************)
(* Program constants.                                                      *)
(***************************************************************************)
lookback_days == 30
MinSamples == 50
ConfidenceCap == 95
Sma5Window == 5
Sma10Window == 10
Sma20Window == 20
RsiWindow == 14
VolumeSmaWindow == 20
VolatilityWindow == 20

Min(a, b) == IF a < b THEN a ELSE b
Max(a, b) == IF a > b THEN a ELSE b

(***************************************************************************)
(* Input series.  A series is a length and a shape; Close and Volume give  *)
(* its bars (close positive, volume a non-negative integer).               *)
(***************************************************************************)
Shapes == {"rising", "falling", "flat", "zigzag"}

Lens == {1, lookback_days + 1, lookback_days + 2,
         lookback_days + MinSamples, lookback_days + MinSamples + 1, MaxBars}

Series == [n : Lens, shape : Shapes]

Close(data, p) ==
    CASE data.shape = "rising"  -> 100 + p
      [] data.shape = "falling" -> 300 - p
      [] data.shape = "flat"    -> 100
      [] data.shape = "zigzag"  -> 100 + (p % 2)

Volume(data, p) ==
    IF data.shape = "flat" THEN 0 ELSE 1000 + p

\* test_size as an exact fraction <<num, den>>; <<1, 5>> is the default 0.2
TestSizes == {<<1, 5>>, <<1, 3>>}


(***************************************************************************)
(* prepare_features: the indicator columns (NaN or defined), the feature   *)
(* rows and the targets.                                                   *)
(***************************************************************************)
FeatureColumns ==
    <<"sma_5", "sma_10", "sma_20", "ema_12", "ema_26",
      "rsi", "volume_ratio", "price_change", "volatility">>

\* Series.rolling(window): NaN until the window is full
RollingIsNaN(window, p) == p < window - 1

\* delta = Close.diff(): NaN at position 0
DeltaIsNaN(p) == p < 1
Delta(data, p) == Close(data, p) - Close(data, p - 1)

\* delta.where(delta > 0, 0) and -delta.where(delta < 0, 0): a NaN delta
\* fails the comparison and is replaced by 0
GainTerm(data, p) ==
    IF ~DeltaIsNaN(p) /\ Delta(data, p) > 0 THEN Delta(data, p) ELSE 0
LossTerm(data, p) ==
    IF ~DeltaIsNaN(p) /\ Delta(data, p) < 0 THEN 0 - Delta(data, p) ELSE 0

\* rs = gain / loss is NaN exactly for 0 / 0; gain / 0 with gain > 0 is inf
\* and gives the defined value 100
RsiIsNaN(data, p) ==
    \/ RollingIsNaN(RsiWindow, p)
    \/ /\ \A q \in (p - RsiWindow + 1)..p : GainTerm(data, q) = 0
       /\ \A q \in (p - RsiWindow + 1)..p : LossTerm(data, q) = 0

\* volume_ratio = Volume / volume_sma: NaN in the warm-up and for 0 / 0
\* (a zero mean of non-negative volumes makes the volume 0 as well)
VolumeRatioIsNaN(data, p) ==
    \/ RollingIsNaN(VolumeSmaWindow, p)
    \/ \A q \in (p - VolumeSmaWindow + 1)..p : Volume(data, q) = 0

ColumnIsNaN(data, col, p) ==
    CASE col = "sma_5"        -> RollingIsNaN(Sma5Window, p)
      [] col = "sma_10"       -> RollingIsNaN(Sma10Window, p)
      [] col = "sma_20"       -> RollingIsNaN(Sma20Window, p)
      [] col = "ema_12"       -> FALSE
      [] col = "ema_26"       -> FALSE
      [] col = "rsi"          -> RsiIsNaN(data, p)
      [] col = "volume_ratio" -> VolumeRatioIsNaN(data, p)
      [] col = "price_change" -> DeltaIsNaN(p)
      [] col = "volatility"   -> RollingIsNaN(VolatilityWindow, p)

\* the feature row of position i holds NaN iff some column is NaN somewhere
\* in the window [i - lookback_days, i): np.mean and np.std propagate NaN
RowHasNaN(data, i) ==
    \E c \in 1..Len(FeatureColumns) :
        \E p \in (i - lookback_days)..(i - 1) :
            ColumnIsNaN(data, FeatureColumns[c], p)

\* the loop running through the last bar: range(lookback_days, len(data))
NumRowsThroughLast(data) == Max(0, data.n - lookback_days)

\* range(lookback_days, len(data) - 1)
NumRows(data) == Max(0, data.n - 1 - lookback_days)

\* target of position i, the exact rational <<numerator, denominator>>
Target(data, i) == <<Close(data, i + 1) - Close(data, i), Close(data, i)>>

\* X is the sequence of row positions (the row's values are those of the
\* window before the position), y the targets aligned with it
prepare_features(data) ==
    [X |-> [k \in 1..NumRows(data) |-> lookback_days + k - 1],
     y |-> [k \in 1..NumRows(data) |-> Target(data, lookback_days + k - 1)],
     feature_columns |-> FeatureColumns]


(***************************************************************************)
(* The libraries train and predict call.                                   *)
(***************************************************************************)
\* train_test_split(X, y, test_size, shuffle=False): n_test is the ceiling
\* of test_size * n, the train split the first n - n_test rows in order
SplitPoint(n, test_size) ==
    n - ((test_size[1] * n + test_size[2] - 1) \div test_size[2])

\* the split taken from the wrong end: the test rows first
SplitTestFirst(X, test_size) ==
    [train |-> SubSeq(X, Len(X) - SplitPoint(Len(X), test_size) + 1, Len(X)),
     test  |-> SubSeq(X, 1, Len(X) - SplitPoint(Len(X), test_size))]

train_test_split(X, test_size) ==
    [train |-> SubSeq(X, 1, SplitPoint(Len(X), test_size)),
     test  |-> SubSeq(X, SplitPoint(Len(X), test_size) + 1, Len(X))]

\* StandardScaler: NaN is ignored by fit and kept by transform
NoScaler == [fitted |-> FALSE, id |-> 0]
FittedScaler(id) == [fitted |-> TRUE, id |-> id]

\* fit_transform where transform is meant: the scaler is fitted anew, by no
\* train call
ScalerRefit(sc) == [fitted |-> TRUE, id |-> 0]

\* scaler.transform in predict uses the statistics and leaves them alone
ScalerAfterTransform(sc) == sc

\* RandomForestRegressor.fit / .predict validate their input: a build whose
\* forest has no missing-value support raises ValueError on NaN
InputRejected(data, rows) ==
    rejectsNaN /\ \E k \in 1..Len(rows) : RowHasNaN(data, rows[k])

\* a forest's output is an average of training targets: it lies between
\* the smallest and the largest of them (kept here as sign classes)
TargetLo(data, rows) ==
    IF \E k \in 1..Len(rows) : Target(data, rows[k])[1] < 0 THEN 0 - 1
    ELSE IF \E k \in 1..Len(rows) : Target(data, rows[k])[1] = 0 THEN 0
    ELSE 1
TargetHi(data, rows) ==
    IF \E k \in 1..Len(rows) : Target(data, rows[k])[1] > 0 THEN 1
    ELSE IF \E k \in 1..Len(rows) : Target(data, rows[k])[1] = 0 THEN 0
    ELSE 0 - 1

\* all training targets equal: no tree splits
TargetsConstant(data, rows) ==
    \A k \in 1..Len(rows) :
        Target(data, rows[1])[1] * Target(data, rows[k])[2]
            = Target(data, rows[k])[1] * Target(data, rows[1])[2]

NFeat == 3 * Len(FeatureColumns)
ImpUnit == 2 * NFeat

\* feature_importances_ in ImpUnit-ths: non-negative, summing to one, or
\* all zero when no tree has a split.  A model keeps the name of its vector.
ImportanceVector(imp) ==
    CASE imp = "zero"    -> [k \in 1..NFeat |-> 0]
      [] imp = "uniform" -> [k \in 1..NFeat |-> 2]
      [] imp = "first"   -> [k \in 1..NFeat |-> IF k = 1 THEN ImpUnit ELSE 0]
      [] imp = "late"    -> [k \in 1..NFeat |->
                                IF k = 2 THEN NFeat - 1
                                ELSE IF k = NFeat THEN NFeat + 1 ELSE 0]

Importances(data, rows) ==
    IF TargetsConstant(data, rows) THEN {"zero"}
    ELSE {"uniform", "first", "late"}

NoModel ==
    [id |-> 0, fitted |-> FALSE, imp |-> "zero", lo |-> 0, hi |-> 0]

\* RandomForestRegressor(...) as constructed, before fit
UnfittedModel(id) == [NoModel EXCEPT !.id = id]

FittedModel(id, data, rows, imp) ==
    [id |-> id, fitted |-> TRUE, imp |-> imp,
     lo |-> TargetLo(data, rows), hi |-> TargetHi(data, rows)]

\* self.model.feature_importances_
feature_importances_(m) == ImportanceVector(m.imp)

\* model.predict(...)[0], in whole percent
Predictions(m) == {r \in (0 - 1)..1 : m.lo <= r /\ r <= m.hi}


(***************************************************************************)
(* What a call gave back: the value returned or the error raised, and      *)
(* (history) which model and scaler it used and how train split the rows.  *)
(***************************************************************************)
NoData == [n |-> 0, shape |-> "flat"]
NoMetrics == [train_samples |-> 0, test_samples |-> 0]
NoSplit == [train |-> <<>>, test |-> <<>>]
NoPrediction ==
    [current_price |-> 0, predicted_change_pct |-> 0, predicted_price |-> 0,
     confidence |-> 0, direction |-> "none"]
NoUse == [model |-> 0, scaler |-> 0]

NoRet ==
    [op |-> "init", err |-> "none", data |-> NoData, test_size |-> <<0, 1>>,
     metrics |-> NoMetrics, split |-> NoSplit, prediction |-> NoPrediction,
     used |-> NoUse, importance |-> <<>>, none |-> FALSE]

Raise(op, data, err) == [NoRet EXCEPT !.op = op, !.data = data, !.err = err]

\* self.model is None
NotTrained(m) == m.id = 0

(***************************************************************************)
(* train                                                                   *)
(***************************************************************************)
\* a model installed only when none is held yet
KeepInstalledModel(old, new) == IF NotTrained(old) THEN new ELSE old

\* self.model = RandomForestRegressor(...): the new object replaces the old
InstalledModel(old, new) == new

train(data, test_size) ==
    /\ calls < MaxTrains
    /\ calls' = calls + 1
    /\ UNCHANGED rejectsNaN
    /\ LET id == calls + 1
           F == prepare_features(data)
           S == train_test_split(F.X, test_size)
       IN  /\ feature_columns' = F.feature_columns
           /\ IF Len(F.X) < MinSamples
              THEN /\ ret' = Raise("train", data, "InsufficientData")
                   /\ UNCHANGED <<model, scaler, lastOk>>
              ELSE /\ scaler' = FittedScaler(id)
                   /\ IF InputRejected(data, S.train)
                      THEN /\ model' = InstalledModel(model, UnfittedModel(id))
                           /\ ret' = [Raise("train", data, "ValueError")
                                        EXCEPT !.test_size = test_size]
                           /\ UNCHANGED lastOk
                      ELSE /\ \E imp \in Importances(data, S.train) :
                                model' = InstalledModel(model,
                                            FittedModel(id, data, S.train, imp))
                           /\ lastOk' = id
                           /\ ret' = [NoRet EXCEPT
                                  !.op = "train", !.data = data,
                                  !.test_size = test_size,
                                  !.metrics = [train_samples |-> Len(S.train),
                                               test_samples |-> Len(S.test)],
                                  !.split = S,
                                  !.used = [model |-> id, scaler |-> id]]

(***************************************************************************)
(* predict                                                                 *)
(***************************************************************************)
\* the comparison with >= in place of >
DirectionNonNegative(r) == IF r >= 0 THEN "up" ELSE "down"

\* 'up' if prediction > 0 else 'down'
Direction(r) == IF r > 0 THEN "up" ELSE "down"

Sum(f) ==
    LET RECURSIVE Upto(_)
        Upto(k) == IF k = 0 THEN 0 ELSE f[k] + Upto(k - 1)
    IN  Upto(Len(f))

\* min(np.mean(feature_importances_) * 100, 95) as a number of
\* (NFeat * ImpUnit)-ths
ConfidenceDen == NFeat * ImpUnit
Confidence(imp) == Min(Sum(imp) * 100, ConfidenceCap * ConfidenceDen)

\* prepare_features called ahead of the not-trained check
AssignColumnsFirst(m, columns) == FeatureColumns

\* predict assigns self.feature_columns (inside prepare_features) only
\* once it is past the not-trained check
PredictFeatureColumns(m, columns) ==
    IF NotTrained(m) THEN columns ELSE FeatureColumns

predict(data) ==
    /\ UNCHANGED <<model, rejectsNaN, calls, lastOk>>
    /\ feature_columns' = PredictFeatureColumns(model, feature_columns)
    /\ LET F == prepare_features(data)
           latest == F.X[Len(F.X)]
       IN  IF NotTrained(model)
           THEN /\ ret' = Raise("predict", data, "NotTrained")
                /\ UNCHANGED scaler
           ELSE IF Len(F.X) = 0
           THEN /\ ret' = Raise("predict", data, "InsufficientData")
                /\ UNCHANGED scaler
           ELSE IF ~scaler.fitted
           THEN /\ ret' = Raise("predict", data, "NotFitted")
                /\ UNCHANGED scaler
           ELSE /\ scaler' = ScalerAfterTransform(scaler)
                /\ IF ~model.fitted
                   THEN ret' = Raise("predict", data, "NotFitted")
                   ELSE IF InputRejected(data, <<latest>>)
                   THEN ret' = Raise("predict", data, "ValueError")
                   ELSE \E r \in Predictions(model) :
                          ret' = [NoRet EXCEPT
                             !.op = "predict", !.data = data,
                             !.used = [model |-> model.id, scaler |-> scaler.id],
                             !.prediction =
                               [current_price |-> Close(data, data.n - 1),
                                predicted_change_pct |-> r,
                                predicted_price |->
                                    Close(data, data.n - 1) * (100 + r),
                                confidence |-> Confidence(feature_importances_(model)),
                                direction |-> Direction(r)]]

(***************************************************************************)
(* get_feature_importance                                                  *)
(***************************************************************************)
\* [f"{col}_mean", f"{col}_std", f"{col}_current"] for each column in order
FeatureNames(columns) ==
    [k \in 1..(3 * Len(columns)) |->
        columns[((k - 1) \div 3) + 1] \o
            (CASE (k - 1) % 3 = 0 -> "_mean"
               [] (k - 1) % 3 = 1 -> "_std"
               [] (k - 1) % 3 = 2 -> "_current")]

\* zip(feature_names, importances) stops at the shorter of the two
Zip(names, scores) ==
    [k \in 1..Min(Len(names), Len(scores)) |-> <<names[k], scores[k]>>]

\* one step of the stable sort: the item goes after every item whose score
\* is at least its own
InsertDesc(sorted, item) ==
    LET before == {k \in 1..Len(sorted) : sorted[k][2] >= item[2]}
        at == IF before = {} THEN 0
              ELSE CHOOSE k \in before : \A j \in before : j <= k
    IN  SubSeq(sorted, 1, at) \o <<item>> \o SubSeq(sorted, at + 1, Len(sorted))

\* sorted(items, key=lambda x: x[1], reverse=True)
SortedDesc(items) ==
    LET RECURSIVE Upto(_)
        Upto(k) == IF k = 0 THEN <<>> ELSE InsertDesc(Upto(k - 1), items[k])
    IN  Upto(Len(items))

get_feature_importance ==
    /\ UNCHANGED <<model, scaler, feature_columns, rejectsNaN, calls, lastOk>>
    /\ IF NotTrained(model)
       THEN ret' = [NoRet EXCEPT !.op = "importance", !.none = TRUE]
       ELSE IF ~model.fitted
       THEN ret' = Raise("importance", NoData, "NotFitted")
       ELSE ret' = [NoRet EXCEPT
                      !.op = "importance",
                      !.used = [model |-> model.id, scaler |-> 0],
                      !.importance =
                          SortedDesc(Zip(FeatureNames(feature_columns),
                                         feature_importances_(model)))]

(***************************************************************************)
(* The specification.                                                      *)
(***************************************************************************)
Init ==
    /\ model = NoModel
    /\ scaler = NoScaler
    /\ feature_columns = <<>>
    /\ rejectsNaN \in BOOLEAN
    /\ calls = 0
    /\ lastOk = 0
    /\ ret = NoRet
    /\ api = 0

Next ==
    \/ \E data \in Series, test_size \in TestSizes :
          train(data, test_size) /\ UNCHANGED api
    \/ \E data \in Series : predict(data) /\ UNCHANGED api
    \/ get_feature_importance /\ UNCHANGED api

Spec == Init /\ [][Next]_vars

TypeOK ==
    /\ model.id \in 0..MaxTrains
    /\ scaler.id \in 0..MaxTrains
    /\ calls \in 0..MaxTrains
    /\ lastOk \in 0..calls


(***************************************************************************)
(* Properties.  lastOk is the number of the last train call that returned  *)
(* its metrics (0: none has), so the Predictor is Trained iff lastOk # 0.  *)
(***************************************************************************)
Trained == lastOk # 0

\* C1: on a Predictor on which no train call has succeeded, every predict
\* call fails with the not-trained error and returns no Prediction,
\* whatever the series.
C1_PredictUntrainedRaisesNotTrained ==
    (ret.op = "predict" /\ ~Trained)
        => (ret.err = "NotTrained" /\ ret.prediction = NoPrediction)

\* C2: train fails with the insufficient-data error whenever fewer than
\* MinSamples feature rows are derivable (n <= 80 bars), and for every
\* series with MinSamples rows or more it succeeds, returns the metrics and
\* installs a TrainedModel.
C2_TrainSucceedsFromFiftyRows ==
    ret.op = "train" =>
        /\ ret.data.n <= lookback_days + MinSamples
              => ret.err = "InsufficientData"
        /\ ret.data.n > lookback_days + MinSamples
              => /\ ret.err = "none"
                 /\ ret.metrics.train_samples + ret.metrics.test_samples
                        = ret.data.n - 1 - lookback_days
                 /\ model.fitted
                 /\ model.id = calls

\* C3: the Predictor holds a model only if some earlier train call ran to
\* successful completion, so a train call that raises never leaves it
\* holding a model it did not hold before.
C3_ModelOnlyFromSuccessfulTrain ==
    ~NotTrained(model) => Trained


\* C4: the ScalerState predict applies is the one fitted by the train call
\* that produced the installed model: model and scaler always come from the
\* same train call, only a train call changes either of them, and it then
\* replaces both.
C4_ScalerPairedWithModel ==
    /\ [](/\ scaler.id = model.id
          /\ (ret.op = "predict" /\ ret.err = "none")
                => ret.used.scaler = ret.used.model)
    /\ [][(model' # model \/ scaler' # scaler)
            => /\ ret'.op = "train"
               /\ model'.id = calls'
               /\ scaler' = FittedScaler(calls')]_vars

C4_Witness ==
    /\ ret.op = "predict"
    /\ ret.err = "none"
    /\ ret.used = [model |-> 2, scaler |-> 2]

\* C5: once a train has succeeded the Predictor holds the model of the most
\* recent successful train: every later predict and feature_importance that
\* returns used that model, and the Predictor is never Untrained again.
C5_HoldsLatestTrainedModel ==
    Trained =>
        /\ model.id = lastOk
        /\ model.fitted
        /\ (ret.op \in {"predict", "importance"} /\ ret.err = "none")
              => ret.used.model = lastOk

C5_Witness ==
    /\ lastOk = 2
    /\ calls = 3
    /\ ret.op = "importance"
    /\ ret.used.model = 2

\* C6: predict and feature_importance, whether they succeed or fail, leave
\* the model, the ScalerState and the list of feature columns unchanged.
C6_QueriesLeaveTrainedStateAlone ==
    [][ret'.op \in {"predict", "importance"}
         => /\ model' = model
            /\ scaler' = scaler
            /\ feature_columns' = feature_columns]_vars

C6_Witness ==
    /\ ret.op = "predict"
    /\ ret.err = "NotTrained"
    /\ model = NoModel
    /\ scaler = NoScaler
    /\ feature_columns = <<>>

\* C7: on a Trained Predictor, predict on a series of at most
\* lookback_days + 1 bars (no feature row) fails with the insufficient-data
\* error, consults no model and returns no Prediction.
C7_PredictShortSeriesRaises ==
    (ret.op = "predict" /\ Trained /\ ret.data.n <= lookback_days + 1)
        => /\ ret.err = "InsufficientData"
           /\ ret.used = NoUse
           /\ ret.prediction = NoPrediction

C7_Witness ==
    /\ ret.op = "predict"
    /\ Trained
    /\ ret.data.n = lookback_days + 1
    /\ ret.err = "InsufficientData"

\* C8: every Prediction returned has confidence in [0, 95], the smaller of
\* mean importance times 100 and 95, and direction "up" exactly when the
\* predicted return is > 0, "down" otherwise.
C8_PredictionWellFormed ==
    (ret.op = "predict" /\ ret.err = "none")
        => /\ ret.prediction.confidence >= 0
           /\ ret.prediction.confidence <= 95 * ConfidenceDen
           /\ ret.prediction.confidence
                  = Min(Sum(feature_importances_(model)) * 100,
                        95 * ConfidenceDen)
           /\ ret.prediction.direction \in {"up", "down"}
           /\ ret.prediction.direction = "up"
                  <=> ret.prediction.predicted_change_pct > 0

C8_Witness ==
    /\ ret.op = "predict"
    /\ ret.err = "none"
    /\ ret.prediction.predicted_change_pct = 0
    /\ ret.prediction.direction = "down"
    /\ ret.prediction.confidence > 0

\* C9: train splits the feature rows by position: the train split is the
\* prefix holding the first (1 - test_size) share of the rows, the test
\* split the remaining suffix, every train row precedes every test row, no
\* row is in both, and train_samples + test_samples is the number of rows.
C9_SplitByPosition ==
    (ret.op = "train" /\ ret.err = "none")
        => LET S == ret.split
               n == ret.data.n - 1 - lookback_days
               num == ret.test_size[1]
               den == ret.test_size[2]
           IN  /\ S.train \o S.test = [k \in 1..n |-> lookback_days + k - 1]
               /\ Len(S.train) * den <= n * (den - num)
               /\ n * (den - num) < (Len(S.train) + 1) * den
               /\ \A j \in 1..Len(S.train) : \A k \in 1..Len(S.test) :
                      S.train[j] < S.test[k]
               /\ ret.metrics.train_samples = Len(S.train)
               /\ ret.metrics.test_samples = Len(S.test)
               /\ ret.metrics.train_samples + ret.metrics.test_samples = n

C9_Witness ==
    /\ ret.op = "train"
    /\ ret.err = "none"
    /\ ret.data.n = lookback_days + MinSamples + 1
    /\ ret.test_size = <<1, 3>>
    /\ ret.metrics = [train_samples |-> 33, test_samples |-> 17]

\* C10: feature_importance returns None on an Untrained Predictor; on a
\* Trained one it returns one entry per model feature (27: <column>_mean,
\* <column>_std, <column>_current, paired with the importances in column
\* order), ordered by score descending.
C10_ImportanceNoneOrSortedMapping ==
    ret.op = "importance" =>
        /\ ~Trained => (ret.none /\ ret.err = "none")
        /\ Trained =>
              /\ ret.err = "none"
              /\ ~ret.none
              /\ Len(ret.importance) = 27
              /\ \A k \in 1..NFeat :
                    \E j \in 1..Len(ret.importance) :
                        ret.importance[j] =
                            <<FeatureNames(FeatureColumns)[k],
                              feature_importances_(model)[k]>>
              /\ \A j \in 1..(Len(ret.importance) - 1) :
                    ret.importance[j][2] >= ret.importance[j + 1][2]


(***************************************************************************)
(* TechnicalAnalyzer, StockDataFetcher and the feature rows, on small      *)
(* explicit frames (src/src/stock_bro/analysis/technical.py,               *)
(* src/src/stock_bro/data/fetcher.py).  A float is NaN, +inf or an exact   *)
(* rational n / d with d > 0.                                              *)
(***************************************************************************)
MaxLen == 4
MaxPrice == 2
MaxWindow == 3
MaxNumStd == 2

NaN == [k |-> "nan", n |-> 0, d |-> 1]
Inf == [k |-> "inf", n |-> 1, d |-> 1]
Num(a, b) == [k |-> "num", n |-> a, d |-> b]
Whole(a) == Num(a, 1)

IsNum(x) == x.k = "num"
IsNaN(x) == x.k = "nan"

\* x + y, x - y, x * y, x / y of floats: NaN propagates, x / 0 is +inf for
\* x > 0 (a zero of either sign: the results used here do not depend on it)
\* and NaN for x = 0
Add(x, y) ==
    IF IsNaN(x) \/ IsNaN(y) THEN NaN
    ELSE IF ~IsNum(x) \/ ~IsNum(y) THEN Inf
    ELSE Num(x.n * y.d + y.n * x.d, x.d * y.d)

Sub(x, y) ==
    IF IsNaN(x) \/ IsNaN(y) \/ ~IsNum(x) THEN NaN
    ELSE IF ~IsNum(y) THEN NaN
    ELSE Num(x.n * y.d - y.n * x.d, x.d * y.d)

Mul(x, y) ==
    IF IsNaN(x) \/ IsNaN(y) \/ ~IsNum(x) \/ ~IsNum(y) THEN NaN
    ELSE Num(x.n * y.n, x.d * y.d)

Div(x, y) ==
    IF IsNaN(x) \/ IsNaN(y) THEN NaN
    ELSE IF ~IsNum(x) THEN NaN
    ELSE IF ~IsNum(y) THEN Whole(0)
    ELSE IF y.n = 0 THEN (IF x.n = 0 THEN NaN ELSE IF x.n > 0 THEN Inf ELSE NaN)
    ELSE IF y.n > 0 THEN Num(x.n * y.d, x.d * y.n)
    ELSE Num(0 - x.n * y.d, 0 - x.d * y.n)

Abs(x) == IF IsNum(x) /\ x.n < 0 THEN Num(0 - x.n, x.d) ELSE x

\* comparisons of floats: false as soon as one side is NaN
Lt(x, y) == IsNum(x) /\ IsNum(y) /\ x.n * y.d < y.n * x.d
Le(x, y) == IsNum(x) /\ IsNum(y) /\ x.n * y.d <= y.n * x.d
Eq(x, y) == IsNum(x) /\ IsNum(y) /\ x.n * y.d = y.n * x.d

\* a frame: the columns of a DataFrame, each a sequence over positions
\* 0..n-1 kept at indices 1..n.  Bars have Low <= Close <= High.
PriceSeqs == UNION {[1..n -> 1..MaxPrice] : n \in 0..MaxLen}

Frame(base, up) ==
    [Close |-> [p \in 1..Len(base) |-> base[p] + up],
     High  |-> [p \in 1..Len(base) |-> base[p] + 1],
     Low   |-> base]

CloseFrames == {Frame(base, 0) : base \in PriceSeqs}
Frames == {Frame(base, up) : base \in PriceSeqs, up \in 0..1}

Windows == 1..MaxWindow

\* sum of x over positions lo..hi (0-based, inclusive)
RECURSIVE SumRange(_, _, _)
SumRange(x, lo, hi) ==
    IF hi < lo THEN 0 ELSE x[hi + 1] + SumRange(x, lo, hi - 1)

\* the mean with the window ending one bar early (the current bar left out)
RollingMeanLagged(x, window) ==
    [p \in 1..Len(x) |->
        IF p - 1 < window THEN NaN
        ELSE Num(SumRange(x, p - 1 - window, p - 2), window)]

\* Series.rolling(window).mean(): the window of position p holds the
\* positions max(0, p - window + 1)..p; fewer than min_periods = window
\* observations give NaN
RollingMean(x, window) ==
    [p \in 1..Len(x) |->
        LET lo == Max(0, p - window)
            hi == p - 1
        IN  IF hi - lo + 1 < window THEN NaN
            ELSE Num(SumRange(x, lo, hi), hi - lo + 1)]

AnRet(op, data, window, out) ==
    [op |-> op, err |-> "none", data |-> data, window |-> window, out |-> out]
AnRaise(op, data, window, err) ==
    [op |-> op, err |-> err, data |-> data, window |-> window, out |-> <<>>]

Analyzed(r) ==
    /\ UNCHANGED <<model, scaler, feature_columns, rejectsNaN, calls, lastOk, api>>
    /\ ret' = r

calculate_sma(data, window) ==
    Analyzed(AnRet("sma", data, window, RollingMean(data.Close, window)))

\* C11: for a series of length n and a window w with 1 <= w <= n, sma has
\* the length of the input, its first w - 1 positions are undefined and
\* every later position is defined and is the mean of the w latest values.
C11_SmaAlignedMeans ==
    (ret.op = "sma" /\ ret.window <= Len(ret.data.Close))
        => /\ Len(ret.out) = Len(ret.data.Close)
           /\ \A p \in 0..(ret.window - 2) : IsNaN(ret.out[p + 1])
           /\ \A p \in (ret.window - 1)..(Len(ret.out) - 1) :
                 /\ IsNum(ret.out[p + 1])
                 /\ ret.out[p + 1].n * ret.window
                      = ret.out[p + 1].d
                          * SumRange(ret.data.Close, p - ret.window + 1, p)

C11_Witness ==
    /\ ret.op = "sma"
    /\ ret.window = 2
    /\ ret.data.Close = <<1, 2, 2>>
    /\ ret.out = <<NaN, Num(3, 2), Num(4, 2)>>


RECURSIVE Pow(_, _)
Pow(b, e) == IF e = 0 THEN 1 ELSE b * Pow(b, e - 1)

\* Series.ewm(span=window).mean() with the default adjust=True: position t
\* is the weighted average of x[0..t] with weights (1 - a)^i on x[t - i],
\* a = 2 / (window + 1); numerator and denominator are scaled by
\* (window + 1)^t
RECURSIVE EwmWeighted(_, _, _, _)
EwmWeighted(x, window, t, i) ==
    IF i > t THEN 0
    ELSE Pow(window - 1, i) * Pow(window + 1, t - i) * x[t - i + 1]
            + EwmWeighted(x, window, t, i + 1)

RECURSIVE EwmWeights(_, _, _)
EwmWeights(window, t, i) ==
    IF i > t THEN 0
    ELSE Pow(window - 1, i) * Pow(window + 1, t - i)
            + EwmWeights(window, t, i + 1)

ewm_mean(x, window) ==
    [p \in 1..Len(x) |->
        Num(EwmWeighted(x, window, p - 1, 0), EwmWeights(window, p - 1, 0))]

calculate_ema(data, window) ==
    Analyzed(AnRet("ema", data, window, ewm_mean(data.Close, window)))

\* the recursive blend seeded by the first value:
\* y[0] = x[0], y[t] = a * x[t] + (1 - a) * y[t-1], a = 2 / (window + 1)
RECURSIVE RecursiveBlend(_, _, _)
RecursiveBlend(x, window, t) ==
    IF t = 0 THEN Whole(x[1])
    ELSE LET prev == RecursiveBlend(x, window, t - 1)
         IN  Num(2 * x[t + 1] * prev.d + (window - 1) * prev.n,
                 (window + 1) * prev.d)

\* Series.diff(): position 0 is NaN
diff(x) ==
    [p \in 1..Len(x) |-> IF p = 1 THEN NaN ELSE Whole(x[p] - x[p - 1])]

\* delta.where(delta > 0, 0) and -delta.where(delta < 0, 0), as integers:
\* a NaN delta fails both comparisons and is replaced by 0
Gains(x) ==
    [p \in 1..Len(x) |->
        IF Lt(Whole(0), diff(x)[p]) THEN diff(x)[p].n ELSE 0]
Losses(x) ==
    [p \in 1..Len(x) |->
        IF Lt(diff(x)[p], Whole(0)) THEN 0 - diff(x)[p].n ELSE 0]

\* the strength index with gain and loss exchanged
RsiSwapped(x, window) ==
    [p \in 1..Len(x) |->
        LET rs == Div(RollingMean(Losses(x), window)[p],
                      RollingMean(Gains(x), window)[p])
        IN  Sub(Whole(100), Div(Whole(100), Add(Whole(1), rs)))]

Rsi(x, window) ==
    [p \in 1..Len(x) |->
        LET gain == RollingMean(Gains(x), window)[p]
            loss == RollingMean(Losses(x), window)[p]
            rs   == Div(gain, loss)
        IN  Sub(Whole(100), Div(Whole(100), Add(Whole(1), rs)))]

calculate_rsi(data, window) ==
    Analyzed(AnRet("rsi", data, window, Rsi(data.Close, window)))

\* C12: rsi never raises; every defined value lies in [0, 100]; where the
\* average loss of the window is 0 and the average gain is positive the
\* value is exactly 100; where both averages are 0 the value is undefined.
C12_RsiRange ==
    ret.op = "rsi"
        => /\ ret.err = "none"
           /\ \A p \in 1..Len(ret.out) :
                LET gain == RollingMean(Gains(ret.data.Close), ret.window)[p]
                    loss == RollingMean(Losses(ret.data.Close), ret.window)[p]
                    v    == ret.out[p]
                IN  /\ ~IsNaN(v) => (Le(Whole(0), v) /\ Le(v, Whole(100)))
                    /\ (Eq(loss, Whole(0)) /\ Lt(Whole(0), gain))
                          => Eq(v, Whole(100))
                    /\ (Eq(loss, Whole(0)) /\ Eq(gain, Whole(0))) => IsNaN(v)

C12_Witness ==
    /\ ret.op = "rsi"
    /\ ret.window = 2
    /\ ret.data.Close = <<1, 1, 2, 1>>
    /\ IsNaN(ret.out[2])
    /\ Eq(ret.out[3], Whole(100))
    /\ Eq(ret.out[4], Whole(50))


RECURSIVE SumSquares(_, _, _)
SumSquares(x, lo, hi) ==
    IF hi < lo THEN 0 ELSE x[hi + 1] * x[hi + 1] + SumSquares(x, lo, hi - 1)

\* the square of Series.rolling(window).std(), the sample deviation
\* (ddof = 1): NaN during the warm-up and whenever the window holds a
\* single observation
RollingVar(x, window) ==
    [p \in 1..Len(x) |->
        LET lo == Max(0, p - window)
            hi == p - 1
            n  == hi - lo + 1
        IN  IF n < window \/ n < 2 THEN NaN
            ELSE Num(n * SumSquares(x, lo, hi)
                        - SumRange(x, lo, hi) * SumRange(x, lo, hi),
                     n * (n - 1))]

\* a float of the form mid + coef * sqrt(var), kept exact; it is NaN when
\* mid or the deviation is NaN, whatever coef is
Surd(mid, coef, var) == [mid |-> mid, coef |-> coef, var |-> var]
Plain(x) == Surd(x, 0, Whole(0))
SurdIsNaN(a) == ~IsNum(a.mid) \/ ~IsNum(a.var)

\* a >= b for two such floats over the same deviation
SurdGe(a, b) ==
    /\ ~SurdIsNaN(a)
    /\ ~SurdIsNaN(b)
    /\ LET D  == Sub(a.mid, b.mid)
           C  == a.coef - b.coef
           v  == IF a.coef # 0 THEN a.var ELSE b.var
           CC == Mul(Whole(C * C), v)
           DD == Mul(D, D)
           rootSign == IF v.n = 0 THEN 0 ELSE C
       IN  IF D.n >= 0 /\ rootSign >= 0 THEN TRUE
           ELSE IF D.n <= 0 /\ rootSign <= 0 THEN D.n = 0 /\ rootSign = 0
           ELSE IF D.n > 0 THEN Le(CC, DD)
           ELSE Le(DD, CC)

\* the upper band computed with the sign of the lower one
UpperBandBelow(x, window, num_std) ==
    [p \in 1..Len(x) |->
        Surd(RollingMean(x, window)[p], 0 - num_std, RollingVar(x, window)[p])]

UpperBand(x, window, num_std) ==
    [p \in 1..Len(x) |->
        Surd(RollingMean(x, window)[p], num_std, RollingVar(x, window)[p])]

LowerBand(x, window, num_std) ==
    [p \in 1..Len(x) |->
        Surd(RollingMean(x, window)[p], 0 - num_std, RollingVar(x, window)[p])]

NumStds == (0 - 1)..MaxNumStd

calculate_bollinger_bands(data, window, num_std) ==
    Analyzed([op |-> "bollinger", err |-> "none", data |-> data,
              window |-> window, num_std |-> num_std,
              out |-> [upper  |-> UpperBand(data.Close, window, num_std),
                       middle |-> RollingMean(data.Close, window),
                       lower  |-> LowerBand(data.Close, window, num_std)]])

BandsDefinition ==
    /\ ret.out.middle = RollingMean(ret.data.Close, ret.window)
    /\ \A p \in 1..Len(ret.data.Close) :
          /\ ret.out.upper[p] = Surd(ret.out.middle[p], ret.num_std,
                                     RollingVar(ret.data.Close, ret.window)[p])
          /\ ret.out.lower[p] = Surd(ret.out.middle[p], 0 - ret.num_std,
                                     RollingVar(ret.data.Close, ret.window)[p])

BandsOrdered ==
    \A p \in ret.window..Len(ret.data.Close) :
        /\ SurdGe(ret.out.upper[p], Plain(ret.out.middle[p]))
        /\ SurdGe(Plain(ret.out.middle[p]), ret.out.lower[p])

\* C13 as stated: for any window and any num_std >= 0, at every position
\* >= window - 1 the bands satisfy upper >= middle >= lower, with
\* middle = sma(window) and upper, lower = middle +- num_std * stddev(window).
C13_BandsOrderedAnyWindow ==
    (ret.op = "bollinger" /\ ret.num_std >= 0)
        => (BandsDefinition /\ BandsOrdered)

\* C13 amended: the same for any window >= 2 (the deviation of a window of
\* one bar is undefined, and so are the outer bands).
C13_BandsOrderedFromWindowTwo ==
    (ret.op = "bollinger" /\ ret.num_std >= 0 /\ ret.window >= 2)
        => (BandsDefinition /\ BandsOrdered)

C13_Witness ==
    /\ ret.op = "bollinger"
    /\ ret.window = 2
    /\ ret.num_std = 2
    /\ ret.data.Close = <<1, 2, 2>>
    /\ ret.out.upper[2] = Surd(Num(3, 2), 2, Num(1, 2))
    /\ ret.out.lower[3] = Surd(Num(4, 2), 0 - 2, Num(0, 2))


SetMax(S) == CHOOSE m \in S : \A e \in S : e <= m
SetMin(S) == CHOOSE m \in S : \A e \in S : m <= e

\* Series.rolling(window, center=True): the window of position p ends
\* (exclusive) at p + 1 + (window - 1) // 2 and starts window bars earlier,
\* both clipped to the series; a clipped window is short and gives NaN.
\* The result is the set of positions (0-based) where x equals the max,
\* resp. the min, of its window: a NaN never compares equal.
CenteredWindow(n, window, p) ==
    LET stop  == p + 1 + ((window - 1) \div 2)
        start == stop - window
    IN  Max(0, Min(start, n))..(Min(stop, n) - 1)

CenteredFull(n, window, p) ==
    Cardinality(CenteredWindow(n, window, p)) >= window

LocalHighs(data, window) ==
    {data.High[p + 1] : p \in
        {q \in 0..(Len(data.High) - 1) :
            /\ CenteredFull(Len(data.High), window, q)
            /\ data.High[q + 1]
                 = SetMax({data.High[r + 1] :
                              r \in CenteredWindow(Len(data.High), window, q)})}}

LocalLows(data, window) ==
    {data.Low[p + 1] : p \in
        {q \in 0..(Len(data.Low) - 1) :
            /\ CenteredFull(Len(data.Low), window, q)
            /\ data.Low[q + 1]
                 = SetMin({data.Low[r + 1] :
                              r \in CenteredWindow(Len(data.Low), window, q)})}}

\* the candidates with the current price itself allowed
AboveOrAt(levels, current_price) == {r \in levels : r >= current_price}

Above(levels, current_price) == {r \in levels : r > current_price}
Below(levels, current_price) == {r \in levels : r < current_price}

get_support_resistance_levels(data, window) ==
    IF Len(data.Close) = 0
    THEN Analyzed(AnRaise("support_resistance", data, window, "IndexError"))
    ELSE LET current_price == data.Close[Len(data.Close)]
             up   == Above(LocalHighs(data, window), current_price)
             down == Below(LocalLows(data, window), current_price)
         IN  Analyzed(AnRet("support_resistance", data, window,
                 [support |-> IF down = {} THEN Num(current_price * 9, 10)
                              ELSE Whole(SetMax(down)),
                  resistance |-> IF up = {} THEN Num(current_price * 11, 10)
                                 ELSE Whole(SetMin(up)),
                  current_price |-> Whole(current_price)]))

\* C14: for a (non-empty) series with positive closes the result has
\* support < current_price < resistance, current_price the last close,
\* resistance the smallest local high strictly above it or
\* current_price * 1.1 if there is none, support the largest local low
\* strictly below it or current_price * 0.9 if there is none.
C14_SupportBelowResistanceAbove ==
    (/\ ret.op = "support_resistance"
     /\ Len(ret.data.Close) >= 1
     /\ \A p \in 1..Len(ret.data.Close) : ret.data.Close[p] > 0)
        => LET c    == ret.data.Close[Len(ret.data.Close)]
               his  == {h \in LocalHighs(ret.data, ret.window) : h > c}
               los  == {l \in LocalLows(ret.data, ret.window) : l < c}
           IN  /\ ret.err = "none"
               /\ ret.out.current_price = Whole(c)
               /\ Lt(ret.out.support, ret.out.current_price)
               /\ Lt(ret.out.current_price, ret.out.resistance)
               /\ IF his = {} THEN Eq(ret.out.resistance, Num(11 * c, 10))
                  ELSE /\ ret.out.resistance.n \in his
                       /\ ret.out.resistance.d = 1
                       /\ \A h \in his : ret.out.resistance.n <= h
               /\ IF los = {} THEN Eq(ret.out.support, Num(9 * c, 10))
                  ELSE /\ ret.out.support.n \in los
                       /\ ret.out.support.d = 1
                       /\ \A l \in los : l <= ret.out.support.n

\* a local high above the price, and no local low below it
C14_Witness ==
    /\ ret.op = "support_resistance"
    /\ ret.window = 3
    /\ ret.data.High = <<2, 3, 2, 2>>
    /\ ret.data.Close = <<1, 2, 1, 1>>
    /\ ret.out.resistance = Whole(3)
    /\ ret.out.support = Num(9, 10)


\* the relative change reported with its sign
StrengthSigned(price_change) == price_change

Strength(price_change) == Abs(price_change)

\* windows of analyze_trend: window // 2 >= 1
TrendWindows == 2..MaxWindow

\* analyze_trend has no length check of its own: .iloc[-1] raises on an
\* empty series and .iloc[-window] raises when the series has fewer than
\* window bars
analyze_trend(data, window) ==
    LET x == data.Close
        n == Len(x)
    IN  IF n = 0 \/ n < window
        THEN Analyzed(AnRaise("trend", data, window, "IndexError"))
        ELSE LET current_short == RollingMean(x, window \div 2)[n]
                 current_long  == RollingMean(x, window)[n]
                 price_change  == Num(x[n] - x[n - window + 1], x[n - window + 1])
             IN  Analyzed(AnRet("trend", data, window,
                     [trend |-> IF Lt(current_long, current_short) THEN "bullish"
                                ELSE IF Lt(current_short, current_long) THEN "bearish"
                                ELSE "neutral",
                      strength |-> Strength(price_change),
                      price_change_pct |-> Mul(price_change, Whole(100)),
                      sma_short |-> current_short,
                      sma_long |-> current_long]))

\* C15: whenever trend returns a result its classification is one of
\* "bullish", "bearish", "neutral" - bullish iff sma(window / 2) >
\* sma(window) at the latest position, bearish iff it is smaller, neutral
\* otherwise - and its strength is >= 0 and equals
\* |close[-1] - close[-window]| / close[-window].
C15_TrendClassification ==
    (ret.op = "trend" /\ ret.err = "none")
        => LET x     == ret.data.Close
               n     == Len(x)
               short == RollingMean(x, ret.window \div 2)[n]
               long  == RollingMean(x, ret.window)[n]
               first == x[n - ret.window + 1]
               diffc == x[n] - first
           IN  /\ ret.out.trend \in {"bullish", "bearish", "neutral"}
               /\ ret.out.trend = "bullish" <=> Lt(long, short)
               /\ ret.out.trend = "bearish" <=> Lt(short, long)
               /\ ret.out.trend = "neutral" <=> (~Lt(long, short) /\ ~Lt(short, long))
               /\ Le(Whole(0), ret.out.strength)
               /\ Eq(ret.out.strength,
                     Num(IF diffc < 0 THEN 0 - diffc ELSE diffc, first))

\* a falling series: bearish, with a positive strength
C15_Witness ==
    /\ ret.op = "trend"
    /\ ret.window = 2
    /\ ret.data.Close = <<2, 1>>
    /\ ret.out.trend = "bearish"
    /\ Eq(ret.out.strength, Num(1, 2))

\* C16: trend fails with the insufficient-history error whenever the series
\* has fewer than window + 1 bars - a series of exactly window bars
\* included - and returns no classification then (any error is counted as
\* that failure here).
C16_TrendNeedsWindowPlusOne ==
    (ret.op = "trend" /\ Len(ret.data.Close) < ret.window + 1)
        => (ret.err # "none" /\ ret.out = <<>>)

\* what the provider call does: it raises, or it returns a frame (which may
\* be empty)
ProviderOutcomes == [raises : BOOLEAN, frame : CloseFrames]
None == [none |-> TRUE, frame |-> Frame(<<>>, 0)]
Some(frame) == [none |-> FALSE, frame |-> frame]

\* a test that takes every frame for a non-empty one
NeverEmpty(frame) == FALSE

empty(frame) == Len(frame.Close) = 0

get_stock_data(provider) ==
    Analyzed([op |-> "fetch", err |-> "none", provider |-> provider,
              out |-> IF provider.raises THEN None
                      ELSE IF empty(provider.frame) THEN None
                      ELSE Some(provider.frame)])

\* C17: get_stock_data returns None when the provider returns an empty
\* result and when the provider call raises, never raises to its caller and
\* never returns an empty series; otherwise it returns the provider's
\* non-empty series.
C17_AbsenceIsNone ==
    ret.op = "fetch"
        => /\ ret.err = "none"
           /\ (ret.provider.raises \/ Len(ret.provider.frame.Close) = 0)
                 => ret.out = None
           /\ ~ret.out.none => Len(ret.out.frame.Close) > 0
           /\ (~ret.provider.raises /\ Len(ret.provider.frame.Close) > 0)
                 => ret.out = Some(ret.provider.frame)

C17_Witness ==
    /\ ret.op = "fetch"
    /\ ~ret.provider.raises
    /\ Len(ret.provider.frame.Close) = 0
    /\ ret.out.none


Ema12Span == 12
Ema26Span == 26

Stats == <<"mean", "std", "last">>

\* the window of row i with bar i itself included
WindowThroughBar(i, lookback) == [from |-> i - lookback, to |-> i]

\* data[col].iloc[i - lookback:i]: positions i - lookback..i - 1
WindowOf(i, lookback) == [from |-> i - lookback, to |-> i - 1]

\* the feature vector of position i: per column, in the order of
\* feature_columns, np.mean, np.std and values[-1] of the window
FeatureRow(i, lookback) ==
    [k \in 1..(3 * Len(FeatureColumns)) |->
        [col  |-> FeatureColumns[((k - 1) \div 3) + 1],
         stat |-> Stats[((k - 1) % 3) + 1],
         from |-> WindowOf(i, lookback).from,
         to   |-> WindowOf(i, lookback).to]]

\* the positions range(lookback, len(data) - 1), in order
RowPositions(n, lookback) ==
    [k \in 1..Max(0, n - 1 - lookback) |-> lookback + k - 1]

Lookbacks == 1..MaxWindow

prepare_features_rows(data, lookback) ==
    LET x   == data.Close
        pos == RowPositions(Len(x), lookback)
    IN  Analyzed(AnRet("features", data, lookback,
            [X |-> [k \in 1..Len(pos) |->
                      [i |-> pos[k], features |-> FeatureRow(pos[k], lookback)]],
             y |-> [k \in 1..Len(pos) |->
                      Num(x[pos[k] + 2] - x[pos[k] + 1], x[pos[k] + 1])],
             ema_12 |-> ewm_mean(x, Ema12Span),
             ema_26 |-> ewm_mean(x, Ema26Span)]))

\* C18: for n bars and lookback L there are exactly max(0, n - 1 - L)
\* feature rows and as many targets, one per position i of [L, n - 2] in
\* increasing order; row i is built from the positions [i - L, i) as
\* (mean, std, last) per column in the order of the 9 columns (length 27),
\* and target i is (close[i+1] - close[i]) / close[i].
C18_RowsAndTargets ==
    ret.op = "features"
        => LET n == Len(ret.data.Close)
               L == ret.window
               m == IF n - 1 - L > 0 THEN n - 1 - L ELSE 0
           IN  /\ Len(ret.out.X) = m
               /\ Len(ret.out.y) = m
               /\ \A k \in 1..m :
                    LET i == L + k - 1
                        row == ret.out.X[k].features
                    IN  /\ ret.out.X[k].i = i
                        /\ i <= n - 2
                        /\ Len(row) = 27
                        /\ \A c \in 1..9 : \A j \in 1..3 :
                              /\ row[3 * (c - 1) + j].col = FeatureColumns[c]
                              /\ row[3 * (c - 1) + j].stat
                                    = <<"mean", "std", "last">>[j]
                              /\ row[3 * (c - 1) + j].from = i - L
                              /\ row[3 * (c - 1) + j].to = i - 1
                        /\ Eq(ret.out.y[k],
                              Num(ret.data.Close[i + 2] - ret.data.Close[i + 1],
                                  ret.data.Close[i + 1]))

C18_Witness ==
    /\ ret.op = "features"
    /\ ret.window = 1
    /\ ret.data.Close = <<1, 2, 1, 1>>
    /\ Len(ret.out.X) = 2
    /\ ret.out.X[2].i = 2
    /\ ret.out.y = <<Num(0 - 1, 2), Num(0, 1)>>


\* C19: ema is defined at every position and equals the recursive blend
\* seeded by the first value, y[0] = x[0] and
\* y[t] = a * x[t] + (1 - a) * y[t-1] with a = 2 / (window + 1), in
\* calculate_ema and in the ema_12 and ema_26 columns of the feature builder.
C19_EmaIsRecursiveBlend ==
    /\ ret.op = "ema"
          => \A p \in 1..Len(ret.out) :
                /\ IsNum(ret.out[p])
                /\ Eq(ret.out[p],
                      RecursiveBlend(ret.data.Close, ret.window, p - 1))
    /\ ret.op = "features"
          => \A p \in 1..Len(ret.out.ema_12) :
                /\ Eq(ret.out.ema_12[p],
                      RecursiveBlend(ret.data.Close, Ema12Span, p - 1))
                /\ Eq(ret.out.ema_26[p],
                      RecursiveBlend(ret.data.Close, Ema26Span, p - 1))

\* C20: every feature vector built, for every position i of [lookback, n-2]
\* of any series, consists of defined values only: no NaN of an indicator's
\* warm-up, of the first simple return or of an undefined RSI appears in
\* any feature of any row.
C20_NoNaNInFeatureRows ==
    ret.op \in {"train", "predict"}
        => \A k \in 1..NumRows(ret.data) :
              ~RowHasNaN(ret.data, prepare_features(ret.data).X[k])

\* The analyzer and the fetcher keep no state, so every call stands alone:
\* a run of the analysis is one pending call, drawn here, and its result.
Call(fn, data, window, num_std) ==
    [op |-> "call", fn |-> fn, data |-> data, window |-> window,
     num_std |-> num_std]

AnalysisCalls ==
    {Call(fn, data, window, 0) :
        fn \in {"sma", "ema", "rsi"}, data \in CloseFrames, window \in Windows}
    \cup {Call("bollinger", data, window, num_std) :
            data \in CloseFrames, window \in Windows, num_std \in NumStds}
    \cup {Call("support_resistance", data, window, 0) :
            data \in Frames, window \in Windows}
    \cup {Call("trend", data, window, 0) :
            data \in CloseFrames, window \in TrendWindows}
    \cup {Call("features", data, lookback, 0) :
            data \in CloseFrames, lookback \in Lookbacks}
    \cup {[op |-> "call", fn |-> "fetch", provider |-> provider] :
            provider \in ProviderOutcomes}

Pending(fn) == ret.op = "call" /\ ret.fn = fn

InitAnalysis ==
    /\ model = NoModel
    /\ scaler = NoScaler
    /\ feature_columns = <<>>
    /\ rejectsNaN \in BOOLEAN
    /\ calls = 0
    /\ lastOk = 0
    /\ api = 0
    /\ ret \in AnalysisCalls

NextAnalysis ==
    \/ Pending("sma") /\ calculate_sma(ret.data, ret.window)
    \/ Pending("ema") /\ calculate_ema(ret.data, ret.window)
    \/ Pending("rsi") /\ calculate_rsi(ret.data, ret.window)
    \/ Pending("bollinger")
          /\ calculate_bollinger_bands(ret.data, ret.window, ret.num_std)
    \/ Pending("support_resistance")
          /\ get_support_resistance_levels(ret.data, ret.window)
    \/ Pending("trend") /\ analyze_trend(ret.data, ret.window)
    \/ Pending("fetch") /\ get_stock_data(ret.provider)
    \/ Pending("features") /\ prepare_features_rows(ret.data, ret.window)

SpecAnalysis == InitAnalysis /\ [][NextAnalysis]_vars


(***************************************************************************)
(* prepare_features with the values of the columns, on two series that     *)
(* agree up to a bar: the series of one shape, and the same series         *)
(* continued with another shape from position `from` on.                   *)
(***************************************************************************)
MaxTail == 2

PairLens == (lookback_days + 2)..(lookback_days + 2 + MaxTail)

SplicedSeries ==
    {[n |-> n, shape |-> shape, other |-> other, from |-> from] :
        n \in PairLens, shape \in Shapes, other \in Shapes,
        from \in lookback_days..(lookback_days + 2 + MaxTail)}

Unspliced(s) == [s EXCEPT !.other = s.shape]

BarClose(s, p) ==
    IF p < s.from THEN Close([n |-> s.n, shape |-> s.shape], p)
    ELSE Close([n |-> s.n, shape |-> s.other], p)
BarVolume(s, p) ==
    IF p < s.from THEN Volume([n |-> s.n, shape |-> s.shape], p)
    ELSE Volume([n |-> s.n, shape |-> s.other], p)

\* a column held as an array of its values
AsArray(f) == SubSeq(f, 1, Len(f))

CloseColumn(s) == AsArray([p \in 1..s.n |-> BarClose(s, p - 1)])
VolumeColumn(s) == AsArray([p \in 1..s.n |-> BarVolume(s, p - 1)])

\* Series.ewm(span=span).mean() at each position, left unevaluated (the
\* weights (1 - a)^i over 30 and more bars exceed the integers at hand):
\* the span and the values x[p], x[p-1], ..., x[0] it weighs
EwmTerms(x, span) ==
    [p \in 1..Len(x) |->
        [k |-> "ewm", span |-> span,
         terms |-> AsArray([i \in 1..p |-> x[p - i + 1]])]]

\* Series.pct_change(): NaN at position 0
pct_change(x) ==
    [p \in 1..Len(x) |->
        IF p = 1 THEN NaN ELSE Num(x[p] - x[p - 1], x[p - 1])]

\* Series.rolling(window).std(), as the root of its square
RollingStd(x, window) ==
    [p \in 1..Len(x) |-> [k |-> "sqrt", of |-> RollingVar(x, window)[p]]]

\* the columns prepare_features adds to the frame
IndicatorColumns(s) ==
    LET c == CloseColumn(s)
        v == VolumeColumn(s)
        volume_sma == RollingMean(v, VolumeSmaWindow)
    IN  [sma_5  |-> AsArray(RollingMean(c, Sma5Window)),
         sma_10 |-> AsArray(RollingMean(c, Sma10Window)),
         sma_20 |-> AsArray(RollingMean(c, Sma20Window)),
         ema_12 |-> AsArray(EwmTerms(c, Ema12Span)),
         ema_26 |-> AsArray(EwmTerms(c, Ema26Span)),
         rsi    |-> AsArray(Rsi(c, RsiWindow)),
         volume_ratio |->
             AsArray([p \in 1..s.n |-> Div(Whole(v[p]), volume_sma[p])]),
         price_change |-> AsArray(pct_change(c)),
         volatility   |-> AsArray(RollingStd(c, VolatilityWindow))]

\* the window running through bar i: positions i - lookback + 1..i
ValuesThroughBar(column, i, lookback) ==
    SubSeq(column, i - lookback + 2, i + 1)

\* data[col].iloc[i - lookback:i].values: positions i - lookback..i - 1
WindowValues(column, i, lookback) ==
    SubSeq(column, i - lookback + 1, i)

\* np.mean(values), np.std(values) left unevaluated, values[-1] itself
FeatureVector(columns, i) ==
    [k \in 1..(3 * Len(FeatureColumns)) |->
        LET col    == FeatureColumns[((k - 1) \div 3) + 1]
            stat   == Stats[((k - 1) % 3) + 1]
            values == WindowValues(columns[col], i, lookback_days)
        IN  [col |-> col, stat |-> stat,
             of |-> IF stat = "last" THEN <<values[Len(values)]>> ELSE values]]

prepare_features_values(s) ==
    LET columns == IndicatorColumns(s)
        c   == CloseColumn(s)
        pos == RowPositions(s.n, lookback_days)
    IN  [X |-> AsArray([k \in 1..Len(pos) |->
                           AsArray(FeatureVector(columns, pos[k]))]),
         y |-> AsArray([k \in 1..Len(pos) |->
                  Num(c[pos[k] + 2] - c[pos[k] + 1], c[pos[k] + 1])])]


\* a pending comparison: the features of a series and of the series that
\* leaves it at position `from`
PairCall(s) == [op |-> "call", fn |-> "pair", b |-> s]

prepare_features_pair(s) ==
    /\ UNCHANGED <<model, scaler, feature_columns, rejectsNaN, calls, lastOk, api>>
    /\ ret' = [op |-> "pair", err |-> "none", a |-> Unspliced(s), b |-> s,
               outA |-> prepare_features_values(Unspliced(s)),
               outB |-> prepare_features_values(s)]

InitFeatures ==
    /\ model = NoModel
    /\ scaler = NoScaler
    /\ feature_columns = <<>>
    /\ rejectsNaN \in BOOLEAN
    /\ calls = 0
    /\ lastOk = 0
    /\ api = 0
    /\ ret \in {PairCall(s) : s \in SplicedSeries}

NextFeatures ==
    ret.op = "call" /\ ret.fn = "pair" /\ prepare_features_pair(ret.b)

SpecFeatures == InitFeatures /\ [][NextFeatures]_vars

\* the two series of the last comparison have the same bars at the
\* positions 0..i-1
AgreeBefore(i) ==
    \A p \in 0..(i - 1) :
        /\ BarClose(ret.a, p) = BarClose(ret.b, p)
        /\ BarVolume(ret.a, p) = BarVolume(ret.b, p)

\* C21: the feature vector of position i depends only on the bars at the
\* positions < i: two series that agree on the positions 0..i-1 and differ
\* anywhere from i on yield the same feature vector at i.
C21_FeaturesReadOnlyEarlierBars ==
    ret.op = "pair"
        => \A k \in 1..Len(ret.outA.X) :
              AgreeBefore(lookback_days + k - 1)
                  => ret.outA.X[k] = ret.outB.X[k]

\* the series part at bar 31: the rows of 30 and 31 are the same, the
\* target of 31 and the row of 32 are not
C21_Witness ==
    /\ ret.op = "pair"
    /\ ret.b.n = lookback_days + 4
    /\ ret.b.shape = "rising"
    /\ ret.b.other = "falling"
    /\ ret.b.from = lookback_days + 1
    /\ BarClose(ret.a, lookback_days + 1) # BarClose(ret.b, lookback_days + 1)
    /\ ret.outA.X[2] = ret.outB.X[2]
    /\ ret.outA.y[2] # ret.outB.y[2]
    /\ ret.outA.X[3] # ret.outB.X[3]


(***************************************************************************)
(* The API (src/src/stock_bro/api/routes.py): one process, one event loop, *)
(* the module-level predictor shared by every request.  A handler is a     *)
(* coroutine; the loop runs it until it awaits or returns.                 *)
(***************************************************************************)
MaxRequests == 2

MinBars == 100
TrendDefaultWindow == 20
MaxSymbols == 10

Reqs == 1..MaxRequests

\* predictor.train(data): test_size keeps its default 0.2
DefaultTestSize == <<1, 5>>

\* what data_fetcher.get_stock_data returns: None (NoData) or a series of
\* at least one bar
FetchResults == {NoData} \cup Series
IsNone(data) == data.n = 0

\* exceptions: HTTPException carries the status of the response it becomes
NoExc == [class |-> "none", status |-> 0]
HTTPException(status_code) == [class |-> "HTTPException", status |-> status_code]
PyError(class) == [class |-> class, status |-> 0]

\* except Exception as e: raise HTTPException(status_code=500, ...)
\* HTTPException is itself an Exception, so one raised in the try body is
\* caught here as well
ExceptException(exc) ==
    IF exc.class = "none" THEN NoExc ELSE HTTPException(500)

\* except ValueError -> 400, then except Exception -> 500
PredictExcept(exc) ==
    IF exc.class = "none" THEN NoExc
    ELSE IF exc.class = "ValueError" THEN HTTPException(400)
    ELSE HTTPException(500)

\* the response: 200 with the returned result, or the HTTPException's status
StatusOf(exc) == IF exc.class = "none" THEN 200 ELSE exc.status

NewRequest ==
    [route |-> "none", pc |-> "new", data |-> NoData, trained |-> NoUse,
     raised |-> NoExc, status |-> 0, used |-> NoUse]

\* the handler of request q ends: exc was raised in its try body (NoExc:
\* it returned), out is what left the handler
Done(q, route, exc, out) ==
    [q EXCEPT !.route = route, !.pc = "done", !.data = NoData,
              !.raised = exc, !.status = StatusOf(out)]

\* the coroutine that yields between its train and its predict
AwaitAfterTrain == {"trained"}

\* the positions at which predict_stock_price awaits: its body holds no
\* await, the fetch, the train and the predict are plain blocking calls
AwaitPoints == {}

\* the loop can run request r at position pc: r is the coroutine running,
\* or the loop is free and r is new or was suspended there
Runnable(r, pc) ==
    /\ api.req[r].pc = pc
    /\ \/ api.running = r
       \/ api.running = 0 /\ pc \in {"new"} \cup AwaitPoints

Step(r, q) ==
    api' = [running |-> IF q.pc = "done" \/ q.pc \in AwaitPoints THEN 0 ELSE r,
            req |-> [api.req EXCEPT ![r] = q]]

PredictorUntouched ==
    UNCHANGED <<model, scaler, feature_columns, rejectsNaN, calls, lastOk, ret>>

\* GET /stocks/{symbol}
route_get_stock_data(r, data) ==
    /\ Runnable(r, "new")
    /\ PredictorUntouched
    /\ LET exc == IF IsNone(data) THEN HTTPException(404) ELSE NoExc
       IN  Step(r, Done(api.req[r], "stock_data", exc, ExceptException(exc)))

\* GET /stocks/{symbol}/info
route_get_stock_info(r, found) ==
    /\ Runnable(r, "new")
    /\ PredictorUntouched
    /\ LET exc == IF ~found THEN HTTPException(404) ELSE NoExc
       IN  Step(r, Done(api.req[r], "stock_info", exc, ExceptException(exc)))

\* GET /stocks/{symbol}/analysis: of the analyzer's calls only
\* analyze_trend(data) can raise, on fewer than its window of bars
route_get_technical_analysis(r, data) ==
    /\ Runnable(r, "new")
    /\ PredictorUntouched
    /\ LET exc == IF IsNone(data) THEN HTTPException(404)
                  ELSE IF data.n < TrendDefaultWindow THEN PyError("IndexError")
                  ELSE NoExc
       IN  Step(r, Done(api.req[r], "analysis", exc, ExceptException(exc)))

\* GET /stocks/batch/{symbols}: count symbols, each fetched with the same
\* outcome; iloc[-2] raises on a series of one bar
route_get_multiple_stocks(r, count, data) ==
    /\ Runnable(r, "new")
    /\ PredictorUntouched
    /\ LET exc == IF count > MaxSymbols THEN HTTPException(400)
                  ELSE IF ~IsNone(data) /\ data.n < 2 THEN PyError("IndexError")
                  ELSE NoExc
       IN  Step(r, Done(api.req[r], "batch", exc, ExceptException(exc)))


\* every error train and predict raise is a ValueError (the NotFittedError
\* of scikit-learn derives from it)
RaisedBy(r) == IF r.err = "none" THEN NoExc ELSE PyError("ValueError")

\* POST /stocks/predict, up to the train call: the fetch and the check of
\* the number of bars
predict_stock_price_fetch(r, data) ==
    /\ Runnable(r, "new")
    /\ PredictorUntouched
    /\ IF IsNone(data) \/ data.n < MinBars
       THEN Step(r, Done(api.req[r], "predict", HTTPException(400),
                         PredictExcept(HTTPException(400))))
       ELSE Step(r, [api.req[r] EXCEPT
                        !.route = "predict", !.pc = "fetched", !.data = data])

\* training_metrics = predictor.train(data)
predict_stock_price_train(r) ==
    /\ Runnable(r, "fetched")
    /\ train(api.req[r].data, DefaultTestSize)
    /\ IF ret'.err = "none"
       THEN Step(r, [api.req[r] EXCEPT !.pc = "trained", !.trained = ret'.used])
       ELSE Step(r, Done(api.req[r], "predict", RaisedBy(ret'),
                         PredictExcept(RaisedBy(ret'))))

\* prediction = predictor.predict(data, request.days_ahead), and the return
predict_stock_price_predict(r) ==
    /\ Runnable(r, "trained")
    /\ predict(api.req[r].data)
    /\ Step(r, [Done(api.req[r], "predict", RaisedBy(ret'),
                     PredictExcept(RaisedBy(ret')))
                  EXCEPT !.used = ret'.used])

InitApi ==
    /\ model = NoModel
    /\ scaler = NoScaler
    /\ feature_columns = <<>>
    /\ rejectsNaN \in BOOLEAN
    /\ calls = 0
    /\ lastOk = 0
    /\ ret = NoRet
    /\ api = [running |-> 0, req |-> [r \in Reqs |-> NewRequest]]

NextApi ==
    \/ \E r \in Reqs, data \in FetchResults : route_get_stock_data(r, data)
    \/ \E r \in Reqs, found \in BOOLEAN : route_get_stock_info(r, found)
    \/ \E r \in Reqs, data \in FetchResults :
          route_get_technical_analysis(r, data)
    \/ \E r \in Reqs, count \in {1, MaxSymbols + 1}, data \in FetchResults :
          route_get_multiple_stocks(r, count, data)
    \/ \E r \in Reqs, data \in FetchResults : predict_stock_price_fetch(r, data)
    \/ \E r \in Reqs : predict_stock_price_train(r)
    \/ \E r \in Reqs : predict_stock_price_predict(r)

SpecApi == InitApi /\ [][NextApi]_vars

\* C22: with several prediction requests in flight against the one
\* Predictor, the train and the predict of a request are never interleaved
\* with the train of another: as long as a request stands between its train
\* and its predict the Predictor holds the model and the scaler that
\* request trained, and every prediction returned was computed by them.
C22_PredictUsesOwnTraining ==
    \A r \in Reqs :
        /\ api.req[r].pc = "trained"
              => /\ model.id = api.req[r].trained.model
                 /\ scaler.id = api.req[r].trained.scaler
                 /\ \A o \in Reqs \ {r} : api.req[o].pc \notin {"fetched", "trained"}
        /\ (api.req[r].route = "predict" /\ api.req[r].status = 200)
              => /\ api.req[r].trained.model # 0
                 /\ api.req[r].used = api.req[r].trained

\* two prediction requests answered, each by the model it trained
C22_Witness ==
    /\ api.req[1].route = "predict"
    /\ api.req[2].route = "predict"
    /\ api.req[1].status = 200
    /\ api.req[2].status = 200
    /\ api.req[1].used.model # api.req[2].used.model
    /\ api.req[1].used = api.req[1].trained

\* C23: a client-error response raised inside a handler reaches the client
\* with the status the handler raised - 404 when the fetcher returns no
\* series, 400 when the predict endpoint has no series or fewer than 100
\* bars - and is never turned into a 500.
C23_ClientErrorsKeepTheirStatus ==
    \A r \in Reqs :
        (/\ api.req[r].pc = "done"
         /\ api.req[r].raised.class = "HTTPException"
         /\ api.req[r].raised.status \in {400, 404})
            => api.req[r].status = api.req[r].raised.status

====
